---- MODULE Spec2Model ----
(***************************************************************************)
(* Calorie tracker MCP server: storage (SQLite tables user_settings,       *)
(* meals, weights) and the analytics tools get_summary and                 *)
(* calculate_metabolic_rate.                                               *)
(*                                                                         *)
(* Units.  An instant is an integer number of milliseconds since the UTC   *)
(* midnight of calendar date 0; a calendar-date label 'YYYY-MM-DD' is the  *)
(* integer number of days since date 0 (labels compare like the integers). *)
(* A weight is an integer number of tenths of a kilogram, so that          *)
(* Math.round(x * 10) / 10 becomes rounding to an integer.  Macro          *)
(* nutrients, meal names, row ids and created_at/updated_at stamps take    *)
(* part in no decision of the modelled code and are left out of the rows.  *)
(***************************************************************************)
EXTENDS Integers, Naturals, FiniteSets, Sequences, Bags, TLC

VARIABLES tz, settings, meals, weights, procs, nWrites, lastWrite, response

\* the server process (index.ts): the Database handle, the HTTP server, the
\* two session registries, and the shutdown in progress
VARIABLES USER_ID, database, httpServer, transports, sessionServers,
          instances, created, closedSessions, streams, call,
          signals, cleanups, timers, exitCode

processVars ==
  <<USER_ID, database, httpServer, transports, sessionServers,
    instances, created, closedSessions, streams, call,
    signals, cleanups, timers, exitCode>>

vars == <<tz, settings, meals, weights, procs, nWrites, lastWrite, response, processVars>>

(***************************************************************************)
(* Bounds of the model                                                     *)
(***************************************************************************)
MaxWrites == 3          \* createWeight calls begun in one behaviour of Spec
MaxDay == 3             \* last calendar date written in SpecSummary
MaxMeals == 2           \* meal rows stored in one behaviour
MaxSessions == 2        \* McpServer instances constructed by POST /mcp in one behaviour
MaxSignals == 2         \* SIGINT / SIGTERM signals delivered in one behaviour

Users == {"u1", "u2"}
Procs == {"p1", "p2"}
KgValues == {700, 706}  \* 70.0 kg and 70.6 kg

MsPerHour == 60 * 60 * 1000
MsPerDay == 24 * MsPerHour

\* offset of the process's local time zone from UTC (local = UTC + tz)
TZOffsets == {0 - 5 * MsPerHour, 0, 2 * MsPerHour}

\* `number | null` of the handlers
null == -999999

(***************************************************************************)
(* Date handling (JavaScript Date, date-fns, SQLite DATE())                *)
(***************************************************************************)
\* new Date('YYYY-MM-DD'): a date-only string is parsed as UTC midnight
ParseDate(label) == label * MsPerDay

\* new Date(label + 'T00:00:00Z')
ParseDateStartZ(label) == label * MsPerDay

\* new Date(label + 'T23:59:59Z')
ParseDateEndZ(label) == label * MsPerDay + MsPerDay - 1000

\* new Date(label + 'T12:00:00'): no zone designator, so local noon
ParseLocalNoon(label) == label * MsPerDay + 12 * MsPerHour - tz

\* date-fns format(date, 'yyyy-MM-dd'): the calendar date in local time
format(t) == (t + tz) \div MsPerDay

\* date.toISOString().split('T')[0] and SQLite DATE(iso): the UTC date
isoDate(t) == t \div MsPerDay

\* date-fns startOfDay / endOfDay: local midnight / local 23:59:59.999
startOfDay(t) == format(t) * MsPerDay - tz
endOfDay(t) == format(t) * MsPerDay + MsPerDay - 1 - tz

\* date-fns addDays, and Date.setDate(getDate() + n), at a fixed offset
addDays(t, n) == t + n * MsPerDay

\* addDaysToDateString of calculate_metabolic_rate
addDaysToDateString(label, n) == format(addDays(ParseLocalNoon(label), n))

\* Round with a fault: ties towards -Infinity
Round_TiesDown(n, d) == (2 * n + d - 1) \div (2 * d)

\* Math.round(n / d) for d > 0: nearest integer, ties towards +Infinity
Round(n, d) == (2 * n + d) \div (2 * d)

(***************************************************************************)
(* Tables.  A table is a bag of rows.                                      *)
(***************************************************************************)
RECURSIVE SumOver(_, _)
SumOver(S, f) ==
  IF S = {} THEN 0
  ELSE LET e == CHOOSE x \in S : TRUE IN f[e] + SumOver(S \ {e}, f)

Rows(table) == BagToSet(table)

UserExists(S, u) == \E s \in S : s.user = u

\* INSERT INTO user_settings, user_id PRIMARY KEY
createUserSettings(S, u) ==
  S \cup {[user |-> u, timezone |-> "UTC", metabolicRate |-> 2000]}

\* Database.ensureUserExists
ensureUserExists(S, u) == IF UserExists(S, u) THEN S ELSE createUserSettings(S, u)

\* SELECT ... FROM weights WHERE user_id = ? AND logged_at = ?
SelectWeight(W, u, d) == {r \in Rows(W) : r.user = u /\ r.date = d}

\* UpdateWeight with a fault: the UPDATE matches no row
UpdateWeight_NoRowChanged(W, u, d, kg) == W

\* UPDATE weights SET weight_kg = ? WHERE user_id = ? AND logged_at = ?
UpdateWeight(W, u, d, kg) ==
  LET hit == SelectWeight(W, u, d)
      keep == Rows(W) \ hit
      n == SumOver(hit, W)
      kept == [r \in keep |-> CopiesIn(r, W)]
  IN IF hit = {} THEN W
     ELSE kept (+) ([user |-> u, date |-> d, kg |-> kg] :> n)

\* constraints of the weights table: FOREIGN KEY (user_id), UNIQUE(user_id, logged_at)
\* the weights table without its FOREIGN KEY (user_id) clause
WeightForeignKeyOk_Off(S, u) == TRUE

\* FOREIGN KEY (user_id) REFERENCES user_settings (user_id) of weights
WeightForeignKeyOk(S, u) == UserExists(S, u)
WeightUniqueOk(W, u, d) == SelectWeight(W, u, d) = {}

\* INSERT INTO weights (...)
InsertWeight(W, u, d, kg) == W (+) SetToBag({[user |-> u, date |-> d, kg |-> kg]})

\* the record of the most recent completed write for (u, d)
Remember(L, u, d, kg) ==
  {r \in L : ~(r.user = u /\ r.date = d)} \cup {[user |-> u, date |-> d, kg |-> kg]}

NoResponse == [tool |-> "none", ok |-> TRUE]
IdleProc == [pc |-> "idle", user |-> "none", date |-> 0, kg |-> 0, existing |-> FALSE,
             previous |-> null, error |-> "none"]
(***************************************************************************)
(* The server process (index.ts).  A session ID is the number of the       *)
(* McpServer instance it was generated for (randomUUID() never repeats).   *)
(***************************************************************************)
NoUser == "(no user)"           \* an absent X-User-ID header, an unset USER_ID
NoSession == 0                  \* an absent mcp-session-id header
SessionIds == 1..MaxSessions
IdleCall == [pc |-> "idle", user |-> NoUser, sessionId |-> NoSession, header |-> NoUser]

\* the process after main(): the database is initialized, the HTTP server
\* listens when TRANSPORT is 'http' (httpServer stays null for stdio), the
\* registries are empty
Started(transport, userId) ==
  /\ USER_ID = userId
  /\ database = "open"
  /\ httpServer = IF transport = "http" THEN "listening" ELSE "none"
  /\ transports = <<>>
  /\ sessionServers = <<>>
  /\ instances = 0
  /\ created = <<>>
  /\ closedSessions = {}
  /\ streams = {}
  /\ call = IdleCall
  /\ signals = 0
  /\ cleanups = <<>>
  /\ timers = 0
  /\ exitCode = null


Init ==
  /\ tz \in TZOffsets
  /\ settings = {}
  /\ meals = EmptyBag
  /\ weights = EmptyBag
  /\ procs = [p \in Procs |-> IdleProc]
  /\ nWrites = 0
  /\ lastWrite = {}
  /\ response = NoResponse
  /\ Started("stdio", "u1")

(***************************************************************************)
(* Spec: concurrent calls of Database.createWeight.  Every await of the    *)
(* method is a point where another call may run.                           *)
(***************************************************************************)
\* loggedAt values passed to createWeight: new Date('YYYY-MM-DD') by
\* check_weight (UTC midnight) and instants later in the day
WriteInstants == {ParseDate(0), ParseDate(0) + 12 * MsPerHour, ParseDate(1)}

\* a tool handler's `await this.database.ensureUserExists(userId)`
EnsureUser(u) ==
  /\ settings' = ensureUserExists(settings, u)
  /\ settings' # settings
  /\ UNCHANGED <<processVars, tz, meals, weights, procs, nWrites, lastWrite, response>>

\* createWeight up to the end of `await this.db.get(...)`
CreateWeightSelect(p, u, at, kg) ==
  /\ procs[p].pc = "idle"
  /\ nWrites < MaxWrites
  /\ nWrites' = nWrites + 1
  /\ procs' = [procs EXCEPT ![p] =
       [pc |-> "write", user |-> u, date |-> format(at), kg |-> kg,
        existing |-> SelectWeight(weights, u, format(at)) # {},
        previous |-> IF SelectWeight(weights, u, format(at)) = {} THEN null
                     ELSE (CHOOSE r \in SelectWeight(weights, u, format(at)) : TRUE).kg,
        error |-> "none"]]
  /\ UNCHANGED <<processVars, tz, settings, meals, weights, lastWrite, response>>

\* if (existingRow): await this.db.run('UPDATE ...'), return weight
CreateWeightUpdate(p) ==
  LET c == procs[p] IN
  /\ c.pc = "write"
  /\ c.existing
  /\ weights' = UpdateWeight(weights, c.user, c.date, c.kg)
  /\ lastWrite' = Remember(lastWrite, c.user, c.date, c.kg)
  /\ procs' = [procs EXCEPT ![p].pc = "done"]
  /\ UNCHANGED <<processVars, tz, settings, meals, nWrites, response>>

\* else: await this.db.run('INSERT ...'), return weight
CreateWeightInsert(p) ==
  LET c == procs[p] IN
  /\ c.pc = "write"
  /\ ~c.existing
  /\ WeightForeignKeyOk(settings, c.user)
  /\ WeightUniqueOk(weights, c.user, c.date)
  /\ weights' = InsertWeight(weights, c.user, c.date, c.kg)
  /\ lastWrite' = Remember(lastWrite, c.user, c.date, c.kg)
  /\ procs' = [procs EXCEPT ![p].pc = "done"]
  /\ UNCHANGED <<processVars, tz, settings, meals, nWrites, response>>

\* the INSERT violates a constraint: db.run rejects, catch logs and rethrows
CreateWeightInsertFails(p) ==
  LET c == procs[p] IN
  /\ c.pc = "write"
  /\ ~c.existing
  /\ ~(WeightForeignKeyOk(settings, c.user) /\ WeightUniqueOk(weights, c.user, c.date))
  /\ procs' = [procs EXCEPT ![p].pc = "failed",
                            ![p].error = IF ~WeightForeignKeyOk(settings, c.user)
                                         THEN "FOREIGN KEY constraint failed"
                                         ELSE "UNIQUE constraint failed"]
  /\ UNCHANGED <<processVars, tz, settings, meals, weights, nWrites, lastWrite, response>>

\* the caller has received the promise's outcome
CreateWeightReturn(p) ==
  /\ procs[p].pc \in {"done", "failed"}
  /\ procs' = [procs EXCEPT ![p] = IdleProc]
  /\ UNCHANGED <<processVars, tz, settings, meals, weights, nWrites, lastWrite, response>>

Next ==
  \/ \E u \in Users : EnsureUser(u)
  \/ \E p \in Procs, u \in Users, at \in WriteInstants, kg \in KgValues :
       CreateWeightSelect(p, u, at, kg)
  \/ \E p \in Procs : CreateWeightUpdate(p)
  \/ \E p \in Procs : CreateWeightInsert(p)
  \/ \E p \in Procs : CreateWeightInsertFails(p)
  \/ \E p \in Procs : CreateWeightReturn(p)

Spec == Init /\ [][Next]_vars

(***************************************************************************)
(* Storage reads and writes used by the tool handlers                      *)
(***************************************************************************)
\* the sequence of the elements of a finite set of integers, ascending
RECURSIVE Ascending(_)
Ascending(S) ==
  IF S = {} THEN <<>>
  ELSE LET m == CHOOSE x \in S : \A y \in S : x <= y IN <<m>> \o Ascending(S \ {m})

\* MealForeignKeyOk with a fault: foreign keys are not enforced
MealForeignKeyOk_Off(S, u) == TRUE

\* Database.createMeal: INSERT INTO meals, FOREIGN KEY (user_id)
MealForeignKeyOk(S, u) == UserExists(S, u)
createMeal(M, u, at, cal) == M (+) SetToBag({[user |-> u, at |-> at, cal |-> cal]})

\* Database.createWeights for one entry: the date string is stored as given,
\* replacing the weight of an existing row of the same user and date
createWeights(W, u, label, kg) ==
  IF SelectWeight(W, u, label) # {} THEN UpdateWeight(W, u, label, kg)
  ELSE InsertWeight(W, u, label, kg)

\* Database.getUserSettings(userId).metabolicRate
getMetabolicRate(S, u) == (CHOOSE s \in S : s.user = u).metabolicRate

\* Database.getDailyMealsForDateRange: WHERE logged_at BETWEEN ? AND ?
\* GROUP BY DATE(logged_at) ORDER BY DATE(logged_at) ASC
getDailyMealsForDateRange(M, u, startDate, endDate) ==
  LET sel == {m \in Rows(M) : m.user = u /\ startDate <= m.at /\ m.at <= endDate}
      dates == {isoDate(m.at) : m \in sel}
      total(d) == LET day == {m \in sel : isoDate(m.at) = d}
                  IN SumOver(day, [m \in day |-> m.cal * CopiesIn(m, M)])
      order == Ascending(dates)
  IN [i \in 1..Len(order) |-> [date |-> order[i], totalCalories |-> total(order[i])]]

\* getWeightsForDateRange with a fault: no `w.user_id = ?` condition
getWeightsForDateRange_AnyUser(W, u, startLabel, endLabel) ==
  {r \in Rows(W) : startLabel <= r.date /\ r.date <= endLabel}

\* Database.getWeightsForDateRange: WHERE user_id = ? AND logged_at BETWEEN
\* DATE(?) AND DATE(?)
getWeightsForDateRange(W, u, startLabel, endLabel) ==
  {r \in Rows(W) : r.user = u /\ startLabel <= r.date /\ r.date <= endLabel}

\* new Map(); rows.forEach(w => weightMap.set(w.date, w.weightKg))
WeightMap(rows) ==
  [d \in {r.date : r \in rows} |-> (CHOOSE r \in rows : r.date = d).kg]

(***************************************************************************)
(* get_summary                                                             *)
(***************************************************************************)
DefaultMovingAvgDays == 3

\* the lookback loop of get_summary for the row of date `label`: the mean,
\* rounded to one decimal, of the weights found on the `n` dates ending at
\* `label`, or null when there is none
summaryMovingAvg(weightMap, label, n) ==
  LET dateStr(i) == isoDate(addDays(ParseDate(label), 0 - i))
      found == {i \in 0..(n - 1) : dateStr(i) \in DOMAIN weightMap}
      sum == SumOver(found, [i \in found |-> weightMap[dateStr(i)]])
  IN IF found = {} THEN null ELSE Round(sum, Cardinality(found))

\* Deficit with a fault: intake minus metabolic rate
Deficit_Surplus(metabolicRate, totalCalories) == totalCalories - metabolicRate

\* const deficit = metabolicRate - meal.totalCalories
Deficit(metabolicRate, totalCalories) == metabolicRate - totalCalories

\* one element of dailyStats
DailyStat(meal, metabolicRate, weightMap, movingAvgDays) ==
  LET rawWeight == IF meal.date \in DOMAIN weightMap THEN weightMap[meal.date] ELSE null
  IN [date |-> meal.date,
      totalCalories |-> meal.totalCalories,
      deficit |-> Deficit(metabolicRate, meal.totalCalories),
      weight |-> rawWeight,
      weightMovingAvg |-> IF rawWeight # null
                          THEN summaryMovingAvg(weightMap, meal.date, movingAvgDays)
                          ELSE null]

\* WeightDifference with a fault: first minus last
WeightDifference_FirstMinusLast(dailyStats) ==
  LET withAvg == {i \in 1..Len(dailyStats) : dailyStats[i].weightMovingAvg # null}
      first == CHOOSE i \in withAvg : \A j \in withAvg : i <= j
      last == CHOOSE i \in withAvg : \A j \in withAvg : j <= i
  IN IF withAvg = {} THEN null
     ELSE Round(dailyStats[first].weightMovingAvg - dailyStats[last].weightMovingAvg, 1)

\* totalStats.weightDifference
WeightDifference(dailyStats) ==
  LET withAvg == {i \in 1..Len(dailyStats) : dailyStats[i].weightMovingAvg # null}
      first == CHOOSE i \in withAvg : \A j \in withAvg : i <= j
      last == CHOOSE i \in withAvg : \A j \in withAvg : j <= i
  IN IF withAvg = {} THEN null
     ELSE Round(dailyStats[last].weightMovingAvg - dailyStats[first].weightMovingAvg, 1)

\* InvalidRange with a fault: the range is not validated
InvalidRange_Unchecked(startDate, endDate) == FALSE

\* if (startDate > endDate) throw new Error('Start date must be before ...')
InvalidRange(startDate, endDate) == startDate > endDate

\* the handler of get_summary over the tables M (meals), W (weights) and S
\* (settings, as ensureUserExists left it); daysArg is null when
\* weightMovingAvgDays is not given
GetSummaryOn(M, W, S, u, startArg, endArg, daysArg) ==
  LET startDate == startOfDay(ParseDate(startArg))
      endDate == endOfDay(ParseDate(endArg))
      metabolicRate == getMetabolicRate(S, u)
      dailyMeals == getDailyMealsForDateRange(M, u, startDate, endDate)
      movingAvgDays == IF daysArg = null THEN DefaultMovingAvgDays ELSE daysArg
      extendedStartDateStr == format(addDays(startDate, 0 - movingAvgDays))
      endDateStr == format(endDate)
      weightMap == WeightMap(getWeightsForDateRange(W, u, extendedStartDateStr, endDateStr))
      dailyStats == [i \in 1..Len(dailyMeals) |->
                       DailyStat(dailyMeals[i], metabolicRate, weightMap, movingAvgDays)]
      args == [user |-> u, startDate |-> startArg, endDate |-> endArg, days |-> movingAvgDays]
  IN IF InvalidRange(startDate, endDate)
     THEN [tool |-> "get_summary", ok |-> FALSE, args |-> args,
           text |-> "Failed to get summary: Start date must be before or equal to end date"]
     ELSE [tool |-> "get_summary", ok |-> TRUE, args |-> args,
           dailyStats |-> dailyStats,
           totalStats |->
             [totalCalories |-> SumOver(DOMAIN dailyStats,
                                        [i \in DOMAIN dailyStats |-> dailyStats[i].totalCalories]),
              totalDeficit |-> SumOver(DOMAIN dailyStats,
                                       [i \in DOMAIN dailyStats |-> dailyStats[i].deficit]),
              weightDifference |-> WeightDifference(dailyStats)]]

\* the handler of get_summary on the database of the process
GetSummaryResponse(S, u, startArg, endArg, daysArg) ==
  GetSummaryOn(meals, weights, S, u, startArg, endArg, daysArg)

(***************************************************************************)
(* calculate_metabolic_rate                                                *)
(***************************************************************************)
WindowSpan == 6             \* endDateStr = addDaysToDateString(startDateStr, 6)
WindowDays == 7             \* (weightChange * 7700) / 7
CalcMovingAvgDays == 3      \* for (let i = 0; i < 3; i++), extended range -3
KcalPerKg == 7700

\* calculateMovingAvg with a fault: no lookback, only the weight of the date itself
calculateMovingAvg_SameDayOnly(weightMap, dateStr) ==
  IF dateStr \in DOMAIN weightMap THEN weightMap[dateStr] ELSE null

\* calculateMovingAvg(dateStr)
calculateMovingAvg(weightMap, dateStr) ==
  LET lookbackDateStr(i) == addDaysToDateString(dateStr, 0 - i)
      found == {i \in 0..(CalcMovingAvgDays - 1) : lookbackDateStr(i) \in DOMAIN weightMap}
      sum == SumOver(found, [i \in found |-> weightMap[lookbackDateStr(i)]])
  IN IF found = {} THEN null ELSE Round(sum, Cardinality(found))

\* WeightChange with a fault: a missing average counts as 0 kg
WeightChange_NullAsZero(firstDayMovingAvg, lastDayMovingAvg) ==
  Round((IF lastDayMovingAvg = null THEN 0 ELSE lastDayMovingAvg)
        - (IF firstDayMovingAvg = null THEN 0 ELSE firstDayMovingAvg), 1)

\* let weightChange = 0; if (both averages are not null) weightChange = ...
WeightChange(firstDayMovingAvg, lastDayMovingAvg) ==
  IF firstDayMovingAvg # null /\ lastDayMovingAvg # null
  THEN Round(lastDayMovingAvg - firstDayMovingAvg, 1)
  ELSE 0

\* Math.round((weightChange * 7700) / 7), weightChange in tenths of a kg
WeightChangeFactor(weightChange) == Round(weightChange * KcalPerKg, 10 * WindowDays)

\* CalculatedRate with a fault: the factor is added
CalculatedRate_Added(averageDailyCalories, weightChangeFactor) ==
  averageDailyCalories + weightChangeFactor

\* averageDailyCalories - weightChangeFactor
CalculatedRate(averageDailyCalories, weightChangeFactor) ==
  averageDailyCalories - weightChangeFactor

\* the handler of calculate_metabolic_rate over the tables M (meals), W
\* (weights) and S (settings, as ensureUserExists left it)
CalculateOn(M, W, S, u, startDateStr) ==
  LET endDateStr == addDaysToDateString(startDateStr, WindowSpan)
      dailyMeals == getDailyMealsForDateRange(M, u, ParseDateStartZ(startDateStr),
                                              ParseDateEndZ(endDateStr))
      extendedStartDateStr == addDaysToDateString(startDateStr, 0 - CalcMovingAvgDays)
      weightMap == WeightMap(getWeightsForDateRange(W, u, extendedStartDateStr, endDateStr))
      firstDayMovingAvg == calculateMovingAvg(weightMap, startDateStr)
      lastDayMovingAvg == calculateMovingAvg(weightMap, endDateStr)
      weightChange == WeightChange(firstDayMovingAvg, lastDayMovingAvg)
      totalCalories == SumOver(DOMAIN dailyMeals,
                               [i \in DOMAIN dailyMeals |-> dailyMeals[i].totalCalories])
      averageDailyCalories == Round(totalCalories, Len(dailyMeals))
      weightChangeFactor == WeightChangeFactor(weightChange)
      args == [user |-> u, startDate |-> startDateStr]
  IN IF Len(dailyMeals) = 0
     THEN [tool |-> "calculate_metabolic_rate", ok |-> FALSE, args |-> args,
           text |-> "Failed to calculate metabolic rate: No meal data found for the specified 7-day period"]
     ELSE [tool |-> "calculate_metabolic_rate", ok |-> TRUE, args |-> args,
           calculatedMetabolicRate |-> CalculatedRate(averageDailyCalories, weightChangeFactor),
           analysisWindow |-> [startDate |-> startDateStr,
                               endDate |-> endDateStr,
                               averageDailyCalories |-> averageDailyCalories,
                               weightChange |-> weightChange,
                               daysWithData |-> Len(dailyMeals)],
           currentSettingRate |-> getMetabolicRate(S, u),
           \* locals of the handler; weightChangeFactor is shown in the text
           dailyMeals |-> dailyMeals,
           firstDayMovingAvg |-> firstDayMovingAvg,
           lastDayMovingAvg |-> lastDayMovingAvg,
           weightChangeFactor |-> weightChangeFactor]

\* the handler of calculate_metabolic_rate on the database of the process
CalculateResponse(S, u, startDateStr) == CalculateOn(meals, weights, S, u, startDateStr)

(***************************************************************************)
(* SpecSummary: one user's add_meals, add_weights and get_summary calls    *)
(***************************************************************************)
SummaryUser == "u1"
MealTimes == {MsPerHour, 12 * MsPerHour, 23 * MsPerHour}
MealDays == (MaxDay - 1)..MaxDay
MealInstants == {ParseDate(d) + t : d \in MealDays, t \in MealTimes}
MealCalories == {1800}
WeightDays == 0..MaxDay
QueryDays == (MaxDay - 1)..MaxDay
DaysArgs == {null, 2}

\* add_meals with one meal: ensureUserExists, then the meal row is stored
AddMeals(u, at, cal) ==
  /\ BagCardinality(meals) < MaxMeals
  /\ settings' = ensureUserExists(settings, u)
  /\ meals' = createMeal(meals, u, at, cal)
  /\ response' = [tool |-> "add_meals", ok |-> TRUE, args |-> [user |-> u]]
  /\ UNCHANGED <<processVars, tz, weights, procs, nWrites, lastWrite>>

\* add_weights with one entry: ensureUserExists, then createWeights
AddWeights(u, label, kg) ==
  /\ settings' = ensureUserExists(settings, u)
  /\ weights' = createWeights(weights, u, label, kg)
  /\ lastWrite' = Remember(lastWrite, u, label, kg)
  /\ response' = [tool |-> "add_weights", ok |-> TRUE, args |-> [user |-> u]]
  /\ UNCHANGED <<processVars, tz, meals, procs, nWrites>>

\* get_summary: the range check throws before ensureUserExists is reached
GetSummary(u, startArg, endArg, daysArg) ==
  /\ settings' = IF InvalidRange(startOfDay(ParseDate(startArg)), endOfDay(ParseDate(endArg)))
                 THEN settings ELSE ensureUserExists(settings, u)
  /\ response' = GetSummaryResponse(settings', u, startArg, endArg, daysArg)
  /\ UNCHANGED <<processVars, tz, meals, weights, procs, nWrites, lastWrite>>

NextSummary ==
  \/ \E at \in MealInstants, cal \in MealCalories : AddMeals(SummaryUser, at, cal)
  \/ \E d \in WeightDays, kg \in KgValues : AddWeights(SummaryUser, d, kg)
  \/ \E s \in QueryDays, e \in QueryDays, n \in DaysArgs : GetSummary(SummaryUser, s, e, n)

SpecSummary == Init /\ [][NextSummary]_vars

(***************************************************************************)
(* SpecMetabolic: one user's add_meals, add_weights and                    *)
(* calculate_metabolic_rate calls around the window starting at CalcStart  *)
(***************************************************************************)
CalcStart == MaxDay
CalcStartArgs == {CalcStart, CalcStart + 1}
CalcWeightDays == (CalcStart - 2)..CalcStart \cup {CalcStart + 4, CalcStart + 6}
\* noon of the first and last date of the window and of the date after it,
\* and the last half second of the window's last date (loggedAt carries
\* milliseconds: z.string().datetime(), or `new Date()` when it is omitted)
CalcMealInstants ==
  {ParseDate(d) + 12 * MsPerHour : d \in {CalcStart, CalcStart + 6, CalcStart + 7}}
    \cup {ParseDate(CalcStart + 6) + MsPerDay - 500}
CalcMealCalories == {1800, 2001}

\* CalculateMetabolicRate with a fault: the calculated rate is stored as the
\* user's metabolic rate
CalculateMetabolicRate_AppliesRate(u, startArg) ==
  LET S == ensureUserExists(settings, u)
      r == CalculateResponse(S, u, startArg)
  IN /\ settings' = IF r.ok
                    THEN {IF s.user = u
                          THEN [s EXCEPT !.metabolicRate = r.calculatedMetabolicRate]
                          ELSE s : s \in S}
                    ELSE S
     /\ response' = r
     /\ UNCHANGED <<processVars, tz, meals, weights, procs, nWrites, lastWrite>>

\* calculate_metabolic_rate: ensureUserExists comes before every read
CalculateMetabolicRate(u, startArg) ==
  /\ settings' = ensureUserExists(settings, u)
  /\ response' = CalculateResponse(settings', u, startArg)
  /\ UNCHANGED <<processVars, tz, meals, weights, procs, nWrites, lastWrite>>

NextMetabolic ==
  \/ \E at \in CalcMealInstants, cal \in CalcMealCalories : AddMeals(SummaryUser, at, cal)
  \/ \E d \in CalcWeightDays, kg \in KgValues : AddWeights(SummaryUser, d, kg)
  \/ \E s \in CalcStartArgs : CalculateMetabolicRate(SummaryUser, s)

SpecMetabolic == Init /\ [][NextMetabolic]_vars

(***************************************************************************)
(* SpecE2E: the scenario of the test 'should calculate metabolic rate from *)
(* meals and weights': the entries of its add_weights and add_meals calls  *)
(* are stored in their order, and calculate_metabolic_rate may be called   *)
(* at any point.                                                           *)
(***************************************************************************)
E2EStart == 2
E2EWeights == <<752, 751, 750, 748, 746, 744, 742, 740, 738>>
E2ECalories == 2000
E2EMealDays == 7

E2EAddWeight ==
  LET i == BagCardinality(weights) + 1 IN
  /\ i <= Len(E2EWeights)
  /\ AddWeights(SummaryUser, E2EStart - 3 + i, E2EWeights[i])

E2EAddMeal ==
  LET i == BagCardinality(meals) + 1 IN
  /\ i <= E2EMealDays
  /\ settings' = ensureUserExists(settings, SummaryUser)
  /\ meals' = createMeal(meals, SummaryUser,
                         ParseDate(E2EStart + i - 1) + 12 * MsPerHour, E2ECalories)
  /\ response' = [tool |-> "add_meals", ok |-> TRUE, args |-> [user |-> SummaryUser]]
  /\ UNCHANGED <<processVars, tz, weights, procs, nWrites, lastWrite>>

E2ECalculate == \E s \in {E2EStart, E2EStart + 1} : CalculateMetabolicRate(SummaryUser, s)

NextE2E == E2EAddWeight \/ E2EAddMeal \/ E2ECalculate

SpecE2E == Init /\ [][NextE2E]_vars

(***************************************************************************)
(* SpecTools: the tools called for two users on one database:              *)
(* add_meals, add_weights, update_user_settings, get_summary,              *)
(* calculate_metabolic_rate and the history branch of check_weight.        *)
(***************************************************************************)
\* an optional string argument that is not given
NotGiven == "(not given)"

\* Database.updateUserSettings: UPDATE user_settings SET <the given fields>
\* WHERE user_id = ?; no statement is run when no field is given
updateUserSettings(S, u, timezone, metabolicRate) ==
  {IF s.user # u THEN s
   ELSE [user |-> u,
         timezone |-> IF timezone = NotGiven THEN s.timezone ELSE timezone,
         metabolicRate |-> IF metabolicRate = null THEN s.metabolicRate ELSE metabolicRate]
   : s \in S}

\* Database.getRecentWeights: ORDER BY logged_at DESC LIMIT ?; check_weight
\* shows each row's date as format(new Date(logged_at), 'yyyy-MM-dd')
getRecentWeights(W, u, limit) ==
  LET rows == {r \in Rows(W) : r.user = u}
      order == Ascending({r.date : r \in rows})
      n == Len(order)
      shown == IF n < limit THEN n ELSE limit
  IN [i \in 1..shown |->
        [date |-> format(ParseDate(order[n + 1 - i])),
         kg |-> (CHOOSE r \in rows : r.date = order[n + 1 - i]).kg]]

RecentLimit == 7

\* check_weight without weightKg, over the weights table W
HistoryOn(W, u) ==
  [tool |-> "check_weight", ok |-> TRUE, args |-> [user |-> u],
   recentWeights |-> getRecentWeights(W, u, RecentLimit)]

ToolDays == (MaxDay - 1)..MaxDay
ToolMealInstants == {ParseDate(d) + 12 * MsPerHour : d \in ToolDays}
ToolWeightDays == {MaxDay}
ToolRanges == {<<MaxDay - 1, MaxDay>>, <<MaxDay, MaxDay - 1>>}
ToolCalcStarts == {MaxDay - 1}
\* { timezone: 'Europe/London', metabolicRate: 2400 } and { metabolicRate: 0 }:
\* the schema is z.number().min(0).optional()
SettingsUpdates == {<<"Europe/London", 2400>>, <<NotGiven, 0>>}

\* update_user_settings: ensureUserExists, then updateUserSettings
UpdateUserSettings(u, timezone, metabolicRate) ==
  /\ settings' = updateUserSettings(ensureUserExists(settings, u), u, timezone, metabolicRate)
  /\ response' = [tool |-> "update_user_settings", ok |-> TRUE,
                  args |-> [user |-> u, timezone |-> timezone, metabolicRate |-> metabolicRate]]
  /\ UNCHANGED <<processVars, tz, meals, weights, procs, nWrites, lastWrite>>

\* check_weight without weightKg: ensureUserExists, then the recent weights
CheckWeightHistory(u) ==
  /\ settings' = ensureUserExists(settings, u)
  /\ response' = HistoryOn(weights, u)
  /\ UNCHANGED <<processVars, tz, meals, weights, procs, nWrites, lastWrite>>

NextTools ==
  \/ \E u \in Users, at \in ToolMealInstants, cal \in MealCalories : AddMeals(u, at, cal)
  \/ \E u \in Users, d \in ToolWeightDays, kg \in KgValues : AddWeights(u, d, kg)
  \/ \E u \in Users, a \in SettingsUpdates : UpdateUserSettings(u, a[1], a[2])
  \/ \E u \in Users, r \in ToolRanges : GetSummary(u, r[1], r[2], null)
  \/ \E u \in Users, s \in ToolCalcStarts : CalculateMetabolicRate(u, s)
  \/ \E u \in Users : CheckWeightHistory(u)

SpecTools == Init /\ [][NextTools]_vars

(***************************************************************************)
(* SpecEnsure: tool calls in flight at the same time (two sessions bound   *)
(* to any users).  Database.ensureUserExists awaits its SELECT and then    *)
(* the INSERT of createUserSettings; another call may run in between.      *)
(***************************************************************************)
\* user_settings.user_id is the PRIMARY KEY
SettingsKeyOk(S, u) == ~UserExists(S, u)

\* a handler up to the end of `await this.db.get('SELECT user_id ...')`
ToolEnsureSelect(p, u) ==
  /\ procs[p].pc = "idle"
  /\ nWrites < MaxWrites
  /\ nWrites' = nWrites + 1
  /\ procs' = [procs EXCEPT ![p] =
       [IdleProc EXCEPT !.pc = "ensure", !.user = u, !.existing = UserExists(settings, u)]]
  /\ UNCHANGED <<processVars, tz, settings, meals, weights, lastWrite, response>>

\* if (!existingUser) await this.createUserSettings(...): the INSERT succeeds
ToolEnsureInsert(p) ==
  LET c == procs[p] IN
  /\ c.pc = "ensure"
  /\ ~c.existing
  /\ SettingsKeyOk(settings, c.user)
  /\ settings' = createUserSettings(settings, c.user)
  /\ procs' = [procs EXCEPT ![p].pc = "body"]
  /\ UNCHANGED <<processVars, tz, meals, weights, nWrites, lastWrite, response>>

\* the INSERT violates the primary key: createUserSettings logs and
\* rethrows, ensureUserExists rejects and the handler's catch returns the
\* failure text
ToolEnsureInsertFails(p) ==
  LET c == procs[p] IN
  /\ c.pc = "ensure"
  /\ ~c.existing
  /\ ~SettingsKeyOk(settings, c.user)
  /\ procs' = [procs EXCEPT ![p].pc = "failed",
                            ![p].error = "UNIQUE constraint failed: user_settings.user_id"]
  /\ UNCHANGED <<processVars, tz, settings, meals, weights, nWrites, lastWrite, response>>

\* existingUser was found: ensureUserExists returns without a write
ToolEnsureFound(p) ==
  /\ procs[p].pc = "ensure"
  /\ procs[p].existing
  /\ procs' = [procs EXCEPT ![p].pc = "body"]
  /\ UNCHANGED <<processVars, tz, settings, meals, weights, nWrites, lastWrite, response>>

\* the rest of the handler, here `await this.database.getUserSettings(userId)`
\* of get_summary: the row is there, since no operation deletes one
ToolBody(p) ==
  /\ procs[p].pc = "body"
  /\ procs' = [procs EXCEPT ![p].pc = IF UserExists(settings, procs[p].user)
                                      THEN "done" ELSE "failed",
                            ![p].error = IF UserExists(settings, procs[p].user)
                                         THEN "none" ELSE "User settings not found"]
  /\ UNCHANGED <<processVars, tz, settings, meals, weights, nWrites, lastWrite, response>>

NextEnsure ==
  \/ \E p \in Procs, u \in Users : ToolEnsureSelect(p, u)
  \/ \E p \in Procs : ToolEnsureInsert(p)
  \/ \E p \in Procs : ToolEnsureInsertFails(p)
  \/ \E p \in Procs : ToolEnsureFound(p)
  \/ \E p \in Procs : ToolBody(p)
  \/ \E p \in Procs : CreateWeightReturn(p)
  \/ \E u \in Users, a \in SettingsUpdates : UpdateUserSettings(u, a[1], a[2])

SpecEnsure == Init /\ [][NextEnsure]_vars

(***************************************************************************)
(* SpecBatch: Database.createMeals and Database.createWeights called       *)
(* directly, as the database tests do, also for a user without a settings  *)
(* row.  A batch runs in one transaction: the entries are stored in order  *)
(* and the first failing statement rolls all of them back.                 *)
(***************************************************************************)
\* calories INTEGER NOT NULL, weight_kg REAL NOT NULL
NotNullOk(value) == value # null

\* the statements of a createMeals transaction after BEGIN: the table as the
\* entries leave it and whether every INSERT succeeded
RECURSIVE InsertMeals(_, _, _, _)
InsertMeals(M, S, u, entries) ==
  IF entries = <<>> THEN [ok |-> TRUE, table |-> M]
  ELSE IF ~(MealForeignKeyOk(S, u) /\ NotNullOk(Head(entries).cal))
       THEN [ok |-> FALSE, table |-> M]
       ELSE InsertMeals(createMeal(M, u, Head(entries).at, Head(entries).cal),
                        S, u, Tail(entries))

\* Database.createMeals: COMMIT when every INSERT succeeded, else ROLLBACK
\* and reject
createMeals(M, S, u, entries) ==
  LET r == InsertMeals(M, S, u, entries)
  IN IF r.ok THEN [ok |-> TRUE, table |-> r.table, created |-> Len(entries)]
     ELSE [ok |-> FALSE, table |-> M, created |-> 0]

RECURSIVE UpsertWeights(_, _, _, _)
UpsertWeights(W, S, u, entries) ==
  IF entries = <<>> THEN [ok |-> TRUE, table |-> W]
  ELSE IF ~(NotNullOk(Head(entries).kg)
            /\ (SelectWeight(W, u, Head(entries).date) # {} \/ WeightForeignKeyOk(S, u)))
       THEN [ok |-> FALSE, table |-> W]
       ELSE UpsertWeights(createWeights(W, u, Head(entries).date, Head(entries).kg),
                          S, u, Tail(entries))

\* Database.createWeights for a batch
createWeightsBatch(W, S, u, entries) ==
  LET r == UpsertWeights(W, S, u, entries)
  IN IF r.ok THEN [ok |-> TRUE, table |-> r.table, created |-> Len(entries)]
     ELSE [ok |-> FALSE, table |-> W, created |-> 0]

RECURSIVE RememberAll(_, _, _)
RememberAll(L, u, entries) ==
  IF entries = <<>> THEN L
  ELSE RememberAll(Remember(L, u, Head(entries).date, Head(entries).kg), u, Tail(entries))

\* the sequences of at most two elements of a set
UpToTwo(S) == {<<>>} \cup {<<x>> : x \in S} \cup {<<x, y>> : x \in S, y \in S}

BatchMeals ==
  UpToTwo({[at |-> ParseDate(MaxDay) + 12 * MsPerHour, cal |-> c] : c \in {1800, null}})
BatchWeights ==
  UpToTwo({[date |-> MaxDay, kg |-> 700], [date |-> MaxDay, kg |-> null],
           [date |-> MaxDay - 1, kg |-> 706]})

CreateMealsCall(u, entries) ==
  LET r == createMeals(meals, settings, u, entries) IN
  /\ BagCardinality(meals) + Len(entries) <= MaxMeals
  /\ meals' = r.table
  /\ response' = [tool |-> "createMeals", ok |-> r.ok,
                  args |-> [user |-> u, entries |-> entries], created |-> r.created]
  /\ UNCHANGED <<processVars, tz, settings, weights, procs, nWrites, lastWrite>>

CreateWeightsCall(u, entries) ==
  LET r == createWeightsBatch(weights, settings, u, entries) IN
  /\ weights' = r.table
  /\ lastWrite' = IF r.ok THEN RememberAll(lastWrite, u, entries) ELSE lastWrite
  /\ response' = [tool |-> "createWeights", ok |-> r.ok,
                  args |-> [user |-> u, entries |-> entries], created |-> r.created]
  /\ UNCHANGED <<processVars, tz, settings, meals, procs, nWrites>>

NextBatch ==
  \/ \E u \in Users : EnsureUser(u)
  \/ \E u \in Users, entries \in BatchMeals : CreateMealsCall(u, entries)
  \/ \E u \in Users, entries \in BatchWeights : CreateWeightsCall(u, entries)

SpecBatch == Init /\ [][NextBatch]_vars

(***************************************************************************)
(* SpecRounding: get_summary and calculate_metabolic_rate over weights and *)
(* calories whose means fall exactly halfway between two rounded values.   *)
(***************************************************************************)
RoundStart == MaxDay
RoundWeightDays == {RoundStart - 1, RoundStart, RoundStart + 6}
RoundKgValues == {700, 705}
RoundMealInstants == {ParseDate(d) + 12 * MsPerHour : d \in {RoundStart, RoundStart + 6}}
RoundCalories == {1800, 2001}

NextRounding ==
  \/ \E at \in RoundMealInstants, cal \in RoundCalories : AddMeals(SummaryUser, at, cal)
  \/ \E d \in RoundWeightDays, kg \in RoundKgValues : AddWeights(SummaryUser, d, kg)
  \/ GetSummary(SummaryUser, RoundStart, RoundStart + 6, null)
  \/ CalculateMetabolicRate(SummaryUser, RoundStart)

SpecRounding == Init /\ [][NextRounding]_vars

(***************************************************************************)
(* SpecFaults: get_summary and calculate_metabolic_rate when one of the    *)
(* storage reads of the handler rejects.  `fault` names the read that      *)
(* rejects, "none" when every read resolves.                               *)
(***************************************************************************)
\* the awaits of the two handlers, in the order of the code
StorageReads ==
  <<"ensureUserExists", "getUserSettings", "getDailyMealsForDateRange",
    "getWeightsForDateRange">>
ReadFaults == {"none"} \cup {StorageReads[i] : i \in DOMAIN StorageReads}
StorageError == "Error: SQLITE_IOERR: disk I/O error"

\* the number of storage reads the handler has issued when it returns
ReadsIssued(fault) ==
  IF fault = "none" THEN Len(StorageReads)
  ELSE CHOOSE i \in DOMAIN StorageReads : StorageReads[i] = fault

\* the table ensureUserExists leaves: its SELECT rejects before its INSERT
SettingsUnderFault(S, u, fault) ==
  IF fault = "ensureUserExists" THEN S ELSE ensureUserExists(S, u)

\* SummaryUnderFault with a fault: a rejected weights read counts as no
\* weights
SummaryUnderFault_Partial(M, W, S, u, startArg, endArg, daysArg, fault) ==
  LET full == GetSummaryOn(M, W, S, u, startArg, endArg, daysArg)
  IN IF InvalidRange(startOfDay(ParseDate(startArg)), endOfDay(ParseDate(endArg)))
     THEN full @@ [fault |-> "none", reads |-> 0]
     ELSE IF fault = "none"
     THEN full @@ [fault |-> fault, reads |-> ReadsIssued(fault)]
     ELSE IF fault = "getWeightsForDateRange"
     THEN GetSummaryOn(M, EmptyBag, S, u, startArg, endArg, daysArg)
            @@ [fault |-> fault, reads |-> ReadsIssued(fault)]
     ELSE [tool |-> "get_summary", ok |-> FALSE, args |-> full.args,
           text |-> "Failed to get summary: " \o StorageError,
           fault |-> fault, reads |-> ReadsIssued(fault)]

\* the handler of get_summary: the rejection of an awaited read leaves the
\* try block, and catch returns the failure text
SummaryUnderFault(M, W, S, u, startArg, endArg, daysArg, fault) ==
  LET full == GetSummaryOn(M, W, S, u, startArg, endArg, daysArg)
  IN IF InvalidRange(startOfDay(ParseDate(startArg)), endOfDay(ParseDate(endArg)))
     THEN full @@ [fault |-> "none", reads |-> 0]
     ELSE IF fault = "none"
     THEN full @@ [fault |-> fault, reads |-> ReadsIssued(fault)]
     ELSE [tool |-> "get_summary", ok |-> FALSE, args |-> full.args,
           text |-> "Failed to get summary: " \o StorageError,
           fault |-> fault, reads |-> ReadsIssued(fault)]

\* the handler of calculate_metabolic_rate: both range reads come before the
\* check for an empty window
CalculateUnderFault(M, W, S, u, startDateStr, fault) ==
  IF fault = "none"
  THEN CalculateOn(M, W, S, u, startDateStr) @@ [fault |-> fault, reads |-> ReadsIssued(fault)]
  ELSE [tool |-> "calculate_metabolic_rate", ok |-> FALSE,
        args |-> [user |-> u, startDate |-> startDateStr],
        text |-> "Failed to calculate metabolic rate: " \o StorageError,
        fault |-> fault, reads |-> ReadsIssued(fault)]

FaultDays == (MaxDay - 1)..MaxDay
FaultMealInstants == {ParseDate(d) + 12 * MsPerHour : d \in FaultDays}

GetSummaryFault(u, startArg, endArg, daysArg, fault) ==
  /\ settings' = IF InvalidRange(startOfDay(ParseDate(startArg)), endOfDay(ParseDate(endArg)))
                 THEN settings ELSE SettingsUnderFault(settings, u, fault)
  /\ response' = SummaryUnderFault(meals, weights, ensureUserExists(settings, u), u,
                                   startArg, endArg, daysArg, fault)
  /\ UNCHANGED <<processVars, tz, meals, weights, procs, nWrites, lastWrite>>

CalculateFault(u, startArg, fault) ==
  /\ settings' = SettingsUnderFault(settings, u, fault)
  /\ response' = CalculateUnderFault(meals, weights, ensureUserExists(settings, u), u,
                                     startArg, fault)
  /\ UNCHANGED <<processVars, tz, meals, weights, procs, nWrites, lastWrite>>

NextFaults ==
  \/ \E at \in FaultMealInstants, cal \in MealCalories : AddMeals(SummaryUser, at, cal)
  \/ \E d \in FaultDays, kg \in KgValues : AddWeights(SummaryUser, d, kg)
  \/ \E s \in FaultDays, e \in FaultDays, fault \in ReadFaults :
       GetSummaryFault(SummaryUser, s, e, null, fault)
  \/ \E fault \in ReadFaults : CalculateFault(SummaryUser, MaxDay - 1, fault)

SpecFaults == Init /\ [][NextFaults]_vars

(***************************************************************************)
(* SpecIntegrity: direct calls of Database.createMeal and                  *)
(* Database.createWeight for users with and without a settings row.        *)
(***************************************************************************)
IntegrityInstant == ParseDate(0) + 12 * MsPerHour
IntegrityCalories == 1800

\* Database.createMeal called directly: the INSERT is rejected by the
\* foreign key when the user has no settings row, catch logs and rethrows
CreateMealCall(u, at, cal) ==
  /\ BagCardinality(meals) < MaxMeals
  /\ IF MealForeignKeyOk(settings, u)
     THEN /\ meals' = createMeal(meals, u, at, cal)
          /\ response' = [tool |-> "createMeal", ok |-> TRUE, args |-> [user |-> u]]
     ELSE /\ meals' = meals
          /\ response' = [tool |-> "createMeal", ok |-> FALSE, args |-> [user |-> u],
                          text |-> "FOREIGN KEY constraint failed"]
  /\ UNCHANGED <<processVars, tz, settings, weights, procs, nWrites, lastWrite>>

NextIntegrity ==
  \/ \E u \in Users : EnsureUser(u)
  \/ \E u \in Users : CreateMealCall(u, IntegrityInstant, IntegrityCalories)
  \/ \E p \in Procs, u \in Users, kg \in KgValues :
       CreateWeightSelect(p, u, IntegrityInstant, kg)
  \/ \E p \in Procs : CreateWeightUpdate(p)
  \/ \E p \in Procs : CreateWeightInsert(p)
  \/ \E p \in Procs : CreateWeightInsertFails(p)
  \/ \E p \in Procs : CreateWeightReturn(p)

SpecIntegrity == Init /\ [][NextIntegrity]_vars



(***************************************************************************)
(* SpecServer: the server process.  HTTP requests to /mcp create, use and  *)
(* terminate sessions; SIGINT / SIGTERM start the graceful shutdown.  A    *)
(* request is handled when the server accepts connections; a tool call is  *)
(* in flight between its arrival and the end of its storage work.          *)
(***************************************************************************)
dataVars == <<tz, meals, weights, procs, nWrites, lastWrite>>
shutdownVars == <<signals, cleanups, timers, exitCode>>

Headers == Users \cup {NoUser}
SessionHeaders == SessionIds \cup {NoSession}
Bodies == {"initialize", "tools/call"}
NotInitialized == "Database not initialized. Call initialize() first."

\* debug middleware: if USER_ID is set, a request without x-user-id gets it
XUserId(header) == IF USER_ID # NoUser /\ header = NoUser THEN USER_ID ELSE header

\* MissingUser with a fault: the header is not required
MissingUser_Never(userId) == FALSE

\* if (!userId): the request has no x-user-id header
MissingUser(userId) == userId = NoUser

\* delete T[sid]
Remove(T, sid) == [x \in DOMAIN T \ {sid} |-> T[x]]

\* oncloseTransports with a fault: the transport stays in its registry
oncloseTransports_Keeps(T, sid) == T

\* transport.onclose: delete transports[transport.sessionId]
oncloseTransports(T, sid) == Remove(T, sid)

\* oncloseSessionServers with a fault: the server stays in its registry
oncloseSessionServers_Keeps(SS, sid) == SS

\* transport.onclose: delete sessionServers[transport.sessionId]
oncloseSessionServers(SS, sid) == Remove(SS, sid)

\* ToolUser with a fault: the user of the request's own header
ToolUser_FromHeader(bound, header) == IF header = NoUser THEN bound ELSE header

\* the tool handlers' `const userId = this.userId`: the user the McpServer
\* instance was constructed with
ToolUser(bound, header) == bound

\* transport.close(): the SSE streams end and onclose runs
TransportClose(sid) ==
  /\ transports' = oncloseTransports(transports, sid)
  /\ sessionServers' = oncloseSessionServers(sessionServers, sid)
  /\ closedSessions' = closedSessions \cup {sid}
  /\ streams' = streams \ {sid}

Accepting == httpServer = "listening" /\ exitCode = null

HttpResponse(method, status, code, text, sessionId, header, body) ==
  [tool |-> method, ok |-> status = 200, status |-> status, code |-> code, text |-> text,
   args |-> [sessionId |-> sessionId, header |-> header, body |-> body]]

\* app.post('/mcp')
PostMcp(sessionId, header, body) ==
  LET userId == XUserId(header)
      registered == sessionId \in DOMAIN transports /\ sessionId \in DOMAIN sessionServers
      sid == instances + 1
  IN
  /\ Accepting
  /\ IF registered
     THEN \* transport.handleRequest of the session's transport
          IF body = "initialize"
          THEN /\ response' = HttpResponse("POST /mcp", 400, -32600,
                                "Invalid Request: Server already initialized",
                                sessionId, header, body)
               /\ UNCHANGED <<transports, sessionServers, instances, created, call>>
          ELSE /\ call.pc = "idle"
               /\ call' = [pc |-> "running",
                           user |-> ToolUser(sessionServers[sessionId], userId),
                           sessionId |-> sessionId, header |-> header]
               /\ UNCHANGED <<transports, sessionServers, instances, created, response>>
     ELSE IF MissingUser(userId)
     THEN /\ response' = HttpResponse("POST /mcp", 400, -32602,
                           "X-User-ID header is required for HTTP transport",
                           sessionId, header, body)
          /\ UNCHANGED <<transports, sessionServers, instances, created, call>>
     ELSE \* new McpServer(userId, database), new StreamableHTTPServerTransport
          /\ instances < MaxSessions
          /\ instances' = sid
          /\ IF body = "initialize"
             THEN \* onsessioninitialized
                  /\ transports' = (sid :> [sessionId |-> sid, server |-> userId]) @@ transports
                  /\ sessionServers' = (sid :> userId) @@ sessionServers
                  /\ created' = (sid :> userId) @@ created
                  /\ response' = HttpResponse("POST /mcp", 200, 0, "initialized",
                                              sessionId, header, body)
                                   @@ [session |-> sid]
             ELSE /\ response' = HttpResponse("POST /mcp", 400, -32000,
                                   "Bad Request: Server not initialized",
                                   sessionId, header, body)
                  /\ UNCHANGED <<transports, sessionServers, created>>
          /\ UNCHANGED call
  /\ UNCHANGED <<dataVars, settings, USER_ID, database, httpServer, closedSessions, streams,
                 shutdownVars>>

\* app.get('/mcp'): the transport opens the session's notification stream
\* (the handler reads no header but mcp-session-id)
GetMcp(sessionId) ==
  /\ Accepting
  /\ IF sessionId = NoSession \/ sessionId \notin DOMAIN transports
     THEN /\ response' = HttpResponse("GET /mcp", 400, 0, "Invalid session ID",
                                      sessionId, NoUser, "")
          /\ UNCHANGED streams
     ELSE IF sessionId \in streams
     THEN /\ response' = HttpResponse("GET /mcp", 409, -32000,
                           "Conflict: Only one SSE stream is allowed per session",
                           sessionId, NoUser, "")
          /\ UNCHANGED streams
     ELSE /\ response' = HttpResponse("GET /mcp", 200, 0, "stream", sessionId, NoUser, "")
          /\ streams' = streams \cup {sessionId}
  /\ UNCHANGED <<dataVars, settings, USER_ID, database, httpServer, transports, sessionServers,
                 instances, created, closedSessions, call, shutdownVars>>

\* app.delete('/mcp'): the transport closes itself
DeleteMcp(sessionId) ==
  /\ Accepting
  /\ IF sessionId = NoSession \/ sessionId \notin DOMAIN transports
     THEN /\ response' = HttpResponse("DELETE /mcp", 400, 0, "Invalid session ID",
                                      sessionId, NoUser, "")
          /\ UNCHANGED <<transports, sessionServers, closedSessions, streams>>
     ELSE /\ response' = HttpResponse("DELETE /mcp", 200, 0, "closed", sessionId, NoUser, "")
          /\ TransportClose(sessionId)
  /\ UNCHANGED <<dataVars, settings, USER_ID, database, httpServer, instances, created, call,
                 shutdownVars>>

\* the client of a notification stream goes away
ClientDisconnect(sessionId) ==
  /\ exitCode = null
  /\ sessionId \in streams
  /\ streams' = streams \ {sessionId}
  /\ UNCHANGED <<dataVars, settings, response, USER_ID, database, httpServer, transports,
                 sessionServers, instances, created, closedSessions, call, shutdownVars>>

\* a tools/call message arrives on stdin for the McpServer of USER_ID
StdioToolCall ==
  /\ exitCode = null
  /\ httpServer = "none"
  /\ database # "new"
  /\ call.pc = "idle"
  /\ call' = [pc |-> "running", user |-> ToolUser(USER_ID, NoUser),
              sessionId |-> NoSession, header |-> NoUser]
  /\ UNCHANGED <<dataVars, settings, response, USER_ID, database, httpServer, transports,
                 sessionServers, instances, created, closedSessions, streams, shutdownVars>>

\* the tool handler's storage work, from ensureUserExists on: the `db`
\* getter throws when _db is null, the handler's catch returns the text
ToolCallFinish ==
  /\ exitCode = null
  /\ call.pc = "running"
  /\ IF database = "open"
     THEN /\ settings' = ensureUserExists(settings, call.user)
          /\ response' = [tool |-> "tools/call", ok |-> TRUE, user |-> call.user,
                          args |-> [sessionId |-> call.sessionId, header |-> call.header]]
     ELSE /\ settings' = settings
          /\ response' = [tool |-> "tools/call", ok |-> FALSE, user |-> call.user,
                          args |-> [sessionId |-> call.sessionId, header |-> call.header],
                          text |-> NotInitialized]
  /\ call' = IdleCall
  /\ UNCHANGED <<dataVars, USER_ID, database, httpServer, transports, sessionServers,
                 instances, created, closedSessions, streams, shutdownVars>>

\* Object.keys(transports)
Keys(T) == Ascending(DOMAIN T)

\* handleShutdown(signal)
Signal ==
  /\ exitCode = null
  /\ signals < MaxSignals
  /\ signals' = signals + 1
  /\ timers' = timers + 1
  /\ IF httpServer # "none"
     THEN \* httpServer.close(callback)
          /\ httpServer' = IF httpServer = "listening" THEN "closing" ELSE httpServer
          /\ cleanups' = Append(cleanups, [pc |-> "waiting", todo |-> <<>>])
     ELSE \* cleanupResources()
          /\ httpServer' = httpServer
          /\ cleanups' = Append(cleanups, [pc |-> "transports", todo |-> Keys(transports)])
  /\ UNCHANGED <<dataVars, settings, response, USER_ID, database, transports, sessionServers,
                 instances, created, closedSessions, streams, call, exitCode>>

\* the 'close' event of the HTTP server, once every connection has ended:
\* the callbacks of httpServer.close run cleanupResources()
HttpCloseEvent ==
  /\ exitCode = null
  /\ httpServer \in {"closing", "closed"}
  /\ streams = {}
  /\ call.pc = "idle"
  /\ \E c \in DOMAIN cleanups : cleanups[c].pc = "waiting"
  /\ httpServer' = "closed"
  /\ cleanups' = [c \in DOMAIN cleanups |->
                    IF cleanups[c].pc = "waiting"
                    THEN [pc |-> "transports", todo |-> Keys(transports)]
                    ELSE cleanups[c]]
  /\ UNCHANGED <<dataVars, settings, response, USER_ID, database, transports, sessionServers,
                 instances, created, closedSessions, streams, call, signals, timers, exitCode>>

\* TransportsDone with a fault: the database is closed without waiting for
\* the loop over the sessions
TransportsDone_Always(todo) == TRUE

\* the loop over sessionIds has ended
TransportsDone(todo) == todo = <<>>

\* one turn of `for (const sessionId of sessionIds)`: await transport.close(),
\* then both deletes
CleanupCloseTransport(c) ==
  LET sid == Head(cleanups[c].todo) IN
  /\ exitCode = null
  /\ c \in DOMAIN cleanups
  /\ cleanups[c].pc = "transports"
  /\ ~TransportsDone(cleanups[c].todo)
  /\ IF sid \in DOMAIN transports
     THEN /\ transports' = Remove(oncloseTransports(transports, sid), sid)
          /\ sessionServers' = Remove(oncloseSessionServers(sessionServers, sid), sid)
          /\ closedSessions' = closedSessions \cup {sid}
          /\ streams' = streams \ {sid}
     ELSE UNCHANGED <<transports, sessionServers, closedSessions, streams>>
  /\ cleanups' = [cleanups EXCEPT ![c].todo = Tail(@)]
  /\ UNCHANGED <<dataVars, settings, response, USER_ID, database, httpServer, instances,
                 created, call, signals, timers, exitCode>>

\* Database.closeDatabase(): close the handle if there is one; the rejection
\* of close() is caught and logged and leaves _db set
closeDatabase(db, closeOk) == IF db = "open" /\ closeOk THEN "closed" ELSE db

\* if (database) await database.closeDatabase()
CleanupCloseDatabase(c) ==
  /\ exitCode = null
  /\ c \in DOMAIN cleanups
  /\ cleanups[c].pc = "transports"
  /\ TransportsDone(cleanups[c].todo)
  /\ database' = closeDatabase(database, TRUE)
  /\ cleanups' = [cleanups EXCEPT ![c].pc = "exit"]
  /\ UNCHANGED <<dataVars, settings, response, USER_ID, httpServer, transports, sessionServers,
                 instances, created, closedSessions, streams, call, signals, timers, exitCode>>

\* process.exit(0)
CleanupExit(c) ==
  /\ exitCode = null
  /\ c \in DOMAIN cleanups
  /\ cleanups[c].pc = "exit"
  /\ exitCode' = 0
  /\ UNCHANGED <<dataVars, settings, response, USER_ID, database, httpServer, transports,
                 sessionServers, instances, created, closedSessions, streams, call,
                 signals, cleanups, timers>>

\* the timer of handleShutdown fires: process.exit(1)
Timeout ==
  /\ exitCode = null
  /\ timers > 0
  /\ exitCode' = 1
  /\ UNCHANGED <<dataVars, settings, response, USER_ID, database, httpServer, transports,
                 sessionServers, instances, created, closedSessions, streams, call,
                 signals, cleanups, timers>>

InitServer ==
  /\ tz = 0
  /\ settings = {}
  /\ meals = EmptyBag
  /\ weights = EmptyBag
  /\ procs = [p \in Procs |-> IdleProc]
  /\ nWrites = 0
  /\ lastWrite = {}
  /\ response = NoResponse
  /\ \E transport \in {"stdio", "http"}, userId \in {NoUser, "u1"} :
       /\ transport = "stdio" => userId # NoUser
       /\ Started(transport, userId)

NextServer ==
  \/ \E sessionId \in SessionHeaders, header \in Headers, body \in Bodies :
       PostMcp(sessionId, header, body)
  \/ \E sessionId \in SessionHeaders : GetMcp(sessionId)
  \/ \E sessionId \in SessionHeaders : DeleteMcp(sessionId)
  \/ \E sessionId \in SessionIds : ClientDisconnect(sessionId)
  \/ StdioToolCall
  \/ ToolCallFinish
  \/ Signal
  \/ HttpCloseEvent
  \/ \E c \in DOMAIN cleanups : CleanupCloseTransport(c)
  \/ \E c \in DOMAIN cleanups : CleanupCloseDatabase(c)
  \/ \E c \in DOMAIN cleanups : CleanupExit(c)
  \/ Timeout

SpecServer == InitServer /\ [][NextServer]_vars


(***************************************************************************)
(* SpecShutdown: the graceful shutdown.  The event loop runs every timer   *)
(* that is due, every callback of an event that has happened and every     *)
(* continuation of a settled await; clients are under no obligation.       *)
(***************************************************************************)
NextShutdown ==
  \/ PostMcp(NoSession, "u1", "initialize")
  \/ \E sessionId \in SessionIds : PostMcp(sessionId, NoUser, "tools/call")
  \/ \E sessionId \in SessionIds : GetMcp(sessionId)
  \/ \E sessionId \in SessionIds : ClientDisconnect(sessionId)
  \/ StdioToolCall
  \/ ToolCallFinish
  \/ Signal
  \/ HttpCloseEvent
  \/ \E c \in 1..MaxSignals : CleanupCloseTransport(c)
  \/ \E c \in 1..MaxSignals : CleanupCloseDatabase(c)
  \/ \E c \in 1..MaxSignals : CleanupExit(c)
  \/ Timeout

SpecShutdown ==
  /\ InitServer
  /\ [][NextShutdown]_vars
  /\ WF_vars(Timeout)
  /\ WF_vars(HttpCloseEvent)
  /\ WF_vars(ToolCallFinish)
  /\ \A c \in 1..MaxSignals :
       /\ WF_vars(CleanupCloseTransport(c))
       /\ WF_vars(CleanupCloseDatabase(c))
       /\ WF_vars(CleanupExit(c))

(***************************************************************************)
(* SpecLifecycle: the Database object from construction to close, called   *)
(* directly and by the tools of a stdio server that is shut down.          *)
(***************************************************************************)
\* Database.initialize()
Initialize ==
  /\ exitCode = null
  /\ database = "new"
  /\ database' = "open"
  /\ response' = [tool |-> "initialize", ok |-> TRUE]
  /\ UNCHANGED <<dataVars, settings, USER_ID, httpServer, transports, sessionServers,
                 instances, created, closedSessions, streams, call, shutdownVars>>

\* Database.ensureUserExists(u) called directly: the `db` getter throws when
\* _db is null
DirectStorageCall(u) ==
  /\ exitCode = null
  /\ IF database = "open"
     THEN /\ settings' = ensureUserExists(settings, u)
          /\ response' = [tool |-> "ensureUserExists", ok |-> TRUE, args |-> [user |-> u],
                          before |-> database]
     ELSE /\ settings' = settings
          /\ response' = [tool |-> "ensureUserExists", ok |-> FALSE, args |-> [user |-> u],
                          before |-> database, text |-> NotInitialized]
  /\ UNCHANGED <<dataVars, USER_ID, database, httpServer, transports, sessionServers,
                 instances, created, closedSessions, streams, call, shutdownVars>>

\* Database.closeDatabase() called directly; closeOk is whether the close()
\* of the SQLite handle resolves.  The method returns in every case.
CloseDatabaseCall(closeOk) ==
  /\ exitCode = null
  /\ database' = closeDatabase(database, closeOk)
  /\ response' = [tool |-> "closeDatabase", ok |-> TRUE, before |-> database,
                  closeOk |-> closeOk]
  /\ UNCHANGED <<dataVars, settings, USER_ID, httpServer, transports, sessionServers,
                 instances, created, closedSessions, streams, call, shutdownVars>>

InitLifecycle ==
  /\ tz = 0
  /\ settings = {}
  /\ meals = EmptyBag
  /\ weights = EmptyBag
  /\ procs = [p \in Procs |-> IdleProc]
  /\ nWrites = 0
  /\ lastWrite = {}
  /\ response = NoResponse
  /\ USER_ID = "u1"
  /\ database = "new"
  /\ httpServer = "none"
  /\ transports = <<>>
  /\ sessionServers = <<>>
  /\ instances = 0
  /\ created = <<>>
  /\ closedSessions = {}
  /\ streams = {}
  /\ call = IdleCall
  /\ signals = 0
  /\ cleanups = <<>>
  /\ timers = 0
  /\ exitCode = null

NextLifecycle ==
  \/ Initialize
  \/ \E u \in Users : DirectStorageCall(u)
  \/ \E closeOk \in BOOLEAN : CloseDatabaseCall(closeOk)
  \/ StdioToolCall
  \/ ToolCallFinish
  \/ Signal
  \/ \E c \in 1..MaxSignals : CleanupCloseDatabase(c)
  \/ \E c \in 1..MaxSignals : CleanupExit(c)
  \/ Timeout

SpecLifecycle == InitLifecycle /\ [][NextLifecycle]_vars

(***************************************************************************)
(* What the storage holds, in the terms of the specification: a meal       *)
(* belongs to the calendar date of its timestamp (its ISO date), a weight  *)
(* to its date label.                                                      *)
(***************************************************************************)
HasMeal(u, d) == \E m \in Rows(meals) : m.user = u /\ isoDate(m.at) = d

StoredWeight(u, d) ==
  IF \E r \in Rows(weights) : r.user = u /\ r.date = d
  THEN (CHOOSE r \in Rows(weights) : r.user = u /\ r.date = d).kg
  ELSE null

\* mean, to one decimal, of the weights stored on the n dates ending at d
WindowMean(u, d, n) ==
  LET ds == {x \in (d - n + 1)..d : StoredWeight(u, x) # null}
  IN IF ds = {} THEN null
     ELSE Round(SumOver(ds, [x \in ds |-> StoredWeight(u, x)]), Cardinality(ds))

IsSummary == response.tool = "get_summary"
SummaryRows == {response.dailyStats[i] : i \in DOMAIN response.dailyStats}

\* C3: a get_summary call with startDate <= endDate returns exactly one row
\* for each date of the range on which the user has a meal, none for other
\* dates, in strictly ascending date order.
C3_OneRowPerMealDate ==
  (IsSummary /\ response.args.startDate <= response.args.endDate) =>
    /\ response.ok
    /\ {r.date : r \in SummaryRows} =
         {d \in response.args.startDate..response.args.endDate : HasMeal(response.args.user, d)}
    /\ \A i, j \in DOMAIN response.dailyStats :
         i < j => response.dailyStats[i].date < response.dailyStats[j].date

\* C4: the row of the first day D of the range, when D has a weight, has a
\* moving average over all weights stored on D, D-1, ..., D-(N-1), those
\* dated before startDate included.
C4_FirstDayLooksBack ==
  (IsSummary /\ response.ok) =>
    \A r \in SummaryRows :
      (r.date = response.args.startDate /\ StoredWeight(response.args.user, r.date) # null) =>
        r.weightMovingAvg = WindowMean(response.args.user, r.date, response.args.days)

\* C5: every row's weightMovingAvg is the mean of the weights stored on the
\* row's date and the N-1 preceding dates, whether or not the row's own date
\* has a weight; weight is null when the date has none, and weightMovingAvg
\* is null only when none of the N dates has a weight.
C5_MovingAvgWithoutOwnWeight ==
  (IsSummary /\ response.ok) =>
    \A r \in SummaryRows :
      /\ r.weight = StoredWeight(response.args.user, r.date)
      /\ r.weightMovingAvg = WindowMean(response.args.user, r.date, response.args.days)

\* C7: a get_summary call whose startDate is later than its endDate fails
\* and carries neither dailyStats nor totalStats.
C7_ReversedRangeFails ==
  (IsSummary /\ response.args.startDate > response.args.endDate) =>
    /\ ~response.ok
    /\ "dailyStats" \notin DOMAIN response
    /\ "totalStats" \notin DOMAIN response

C7_Witness ==
  /\ IsSummary /\ response.args.startDate > response.args.endDate
  /\ meals # EmptyBag /\ weights # EmptyBag

\* C6: the moving average divides by the number of dates of the window
\* that have a weight: with N = 3 and weights on D and D-2 but not on D-1,
\* the average at D is the mean of the two, in get_summary rows and at the
\* endpoints of calculate_metabolic_rate.
OnlyOuterTwo(u, d) ==
  /\ StoredWeight(u, d) # null
  /\ StoredWeight(u, d - 1) = null
  /\ StoredWeight(u, d - 2) # null
MeanOfOuterTwo(u, d) == Round(StoredWeight(u, d) + StoredWeight(u, d - 2), 2)

IsCalc == response.tool = "calculate_metabolic_rate"

C6_MeanOverDatesWithWeight ==
  /\ (IsSummary /\ response.ok /\ response.args.days = 3) =>
       \A r \in SummaryRows :
         OnlyOuterTwo(response.args.user, r.date) =>
           r.weightMovingAvg = MeanOfOuterTwo(response.args.user, r.date)
  /\ (IsCalc /\ response.ok) =>
       /\ OnlyOuterTwo(response.args.user, response.analysisWindow.startDate) =>
            response.firstDayMovingAvg =
              MeanOfOuterTwo(response.args.user, response.analysisWindow.startDate)
       /\ OnlyOuterTwo(response.args.user, response.analysisWindow.endDate) =>
            response.lastDayMovingAvg =
              MeanOfOuterTwo(response.args.user, response.analysisWindow.endDate)

\* C8: with the 9 weights 75.2 .. 73.8 on D-2 .. D+6 and one 2000 kcal meal
\* on each of D .. D+6, calculate_metabolic_rate(D) reports daysWithData 7,
\* averageDailyCalories 2000, weightChange -1.1, factor -1210, rate 3210 and
\* currentSettingRate 2000.
E2EComplete ==
  /\ BagCardinality(weights) = Len(E2EWeights)
  /\ BagCardinality(meals) = E2EMealDays

C8_E2EEstimate ==
  (IsCalc /\ E2EComplete /\ response.args.startDate = E2EStart) =>
    /\ response.ok
    /\ response.analysisWindow.daysWithData = 7
    /\ response.analysisWindow.averageDailyCalories = 2000
    /\ response.analysisWindow.weightChange = -11
    /\ response.weightChangeFactor = -1210
    /\ response.calculatedMetabolicRate = 3210
    /\ response.currentSettingRate = 2000

C8_Witness == IsCalc /\ E2EComplete /\ response.args.startDate = E2EStart

\* C9: in every successful calculate_metabolic_rate result the calculated
\* rate is averageDailyCalories - round(weightChange * 7700 / 7): above the
\* average intake after a weight loss, below it after a gain.
C9_RateFormula ==
  (IsCalc /\ response.ok) =>
    LET w == response.analysisWindow IN
    /\ response.calculatedMetabolicRate =
         w.averageDailyCalories - Round(w.weightChange * 7700, 70)
    /\ w.weightChange < 0 => response.calculatedMetabolicRate > w.averageDailyCalories
    /\ w.weightChange > 0 => response.calculatedMetabolicRate < w.averageDailyCalories

C9_Witness ==
  /\ IsCalc /\ response.ok
  /\ response.analysisWindow.weightChange < 0
  /\ response.calculatedMetabolicRate > response.analysisWindow.averageDailyCalories

\* C10: when no weight is stored on startDate and the two dates before it,
\* or none on endDate and the two dates before it, weightChange is 0 and the
\* calculated rate equals averageDailyCalories.
EndpointUnavailable ==
  \/ WindowMean(response.args.user, response.args.startDate, 3) = null
  \/ WindowMean(response.args.user, response.args.startDate + 6, 3) = null

C10_MissingEndpointIsZero ==
  (IsCalc /\ response.ok /\ EndpointUnavailable) =>
    /\ response.analysisWindow.weightChange = 0
    /\ response.calculatedMetabolicRate = response.analysisWindow.averageDailyCalories

\* one endpoint has an average, the other has none
C10_Witness ==
  /\ IsCalc /\ response.ok
  /\ WindowMean(response.args.user, response.args.startDate, 3) = null
  /\ WindowMean(response.args.user, response.args.startDate + 6, 3) # null

\* the dates of the 7-day window of the last calculate_metabolic_rate call
\* on which the user has a meal, and the calories of the meals of those dates
WindowDates == response.args.startDate..(response.args.startDate + WindowSpan)
WindowMealDates == {d \in WindowDates : HasMeal(response.args.user, d)}
WindowMeals ==
  {m \in Rows(meals) : m.user = response.args.user /\ isoDate(m.at) \in WindowDates}
WindowCalories == SumOver(WindowMeals, [m \in WindowMeals |-> m.cal * CopiesIn(m, meals)])

\* C11: calculate_metabolic_rate fails with the insufficient-data error
\* exactly when none of the 7 dates startDate..startDate+6 has a meal;
\* otherwise it succeeds and daysWithData is the number of those dates that
\* have meals, between 1 and 7.
C11_InsufficientDataIffNoMeals ==
  IsCalc =>
    /\ response.ok <=> WindowMealDates # {}
    /\ ~response.ok =>
         response.text =
           "Failed to calculate metabolic rate: No meal data found for the specified 7-day period"
    /\ response.ok =>
         /\ response.analysisWindow.daysWithData = Cardinality(WindowMealDates)
         /\ response.analysisWindow.daysWithData \in 1..WindowDays

\* C12: averageDailyCalories is the sum of the calories of all meals of the
\* window divided by the number of dates that have meals, rounded to an
\* integer; dates without meals are not in the denominator.
C12_AverageOverDaysWithData ==
  (IsCalc /\ response.ok) =>
    response.analysisWindow.averageDailyCalories =
      Round(WindowCalories, Cardinality(WindowMealDates))

\* the per-date totals calculate_metabolic_rate counted in the last response
CountedDays == IF response.ok THEN response.dailyMeals ELSE <<>>
DayCalories(u, d) ==
  LET day == {m \in Rows(meals) : m.user = u /\ isoDate(m.at) = d}
  IN SumOver(day, [m \in day |-> m.cal * CopiesIn(m, meals)])

\* C23: the window of calculate_metabolic_rate covers the 7 dates
\* startDate..startDate+6 inclusive: every one of those dates that has a meal
\* (at any instant of the date, the final second of the last date included)
\* has a counted total equal to the sum of all its meals, and no date outside
\* the window is counted.
C23_WindowCoversSevenDates ==
  IsCalc =>
    /\ {CountedDays[i].date : i \in DOMAIN CountedDays} = WindowMealDates
    /\ \A i \in DOMAIN CountedDays :
         CountedDays[i].totalCalories = DayCalories(response.args.user, CountedDays[i].date)

\* C1: after any sequence of weight writes the table holds at most one row
\* per (user, date), and that row's weight is the value of the most recent
\* completed write for the key.
C1_OneWeightPerDateLatestWins ==
  /\ \A r \in Rows(weights) : CopiesIn(r, weights) = 1
  /\ \A r1, r2 \in Rows(weights) :
       (r1.user = r2.user /\ r1.date = r2.date) => r1 = r2
  /\ Rows(weights) = lastWrite

\* a completed write has replaced a different weight of the same date
C1_Witness ==
  \E p \in Procs :
    /\ procs[p].pc = "done"
    /\ procs[p].existing
    /\ procs[p].previous # procs[p].kg
    /\ StoredWeight(procs[p].user, procs[p].date) = procs[p].kg

\* C2: two createWeight calls for the same user and date, interleaved in any
\* order, both complete without error and leave exactly one row for the
\* key, holding the value of one of the two.
C2_ConcurrentUpsert ==
  \A p, q \in Procs :
    ( /\ p # q
      /\ procs[p].pc \in {"done", "failed"}
      /\ procs[q].pc \in {"done", "failed"}
      /\ procs[p].user = procs[q].user
      /\ procs[p].date = procs[q].date
      /\ procs[p].error # "FOREIGN KEY constraint failed"
      /\ procs[q].error # "FOREIGN KEY constraint failed" ) =>
    /\ procs[p].pc = "done"
    /\ procs[q].pc = "done"
    /\ SumOver(SelectWeight(weights, procs[p].user, procs[p].date), weights) = 1
    /\ StoredWeight(procs[p].user, procs[p].date) \in {procs[p].kg, procs[q].kg}

\* the positions of the rows of the last get_summary result that carry a
\* moving average
RowsWithAvg ==
  {i \in DOMAIN response.dailyStats : response.dailyStats[i].weightMovingAvg # null}

\* C14: totalStats.weightDifference is the weightMovingAvg of the last row
\* that has one minus that of the first row that has one; it is null when no
\* row has a moving average and 0 when exactly one row has one.
C14_WeightDifference ==
  (IsSummary /\ response.ok) =>
    /\ RowsWithAvg = {} => response.totalStats.weightDifference = null
    /\ Cardinality(RowsWithAvg) = 1 => response.totalStats.weightDifference = 0
    /\ \A f, l \in RowsWithAvg :
         ((\A i \in RowsWithAvg : f <= i /\ i <= l) =>
            response.totalStats.weightDifference =
              response.dailyStats[l].weightMovingAvg - response.dailyStats[f].weightMovingAvg)

\* two rows with different moving averages
C14_Witness ==
  /\ IsSummary /\ response.ok
  /\ Cardinality(RowsWithAvg) = 2
  /\ response.totalStats.weightDifference \notin {null, 0}

\* what the storage holds for one user
OwnRows(table, u) == [r \in {x \in Rows(table) : x.user = u} |-> CopiesIn(r, table)]
OwnSettings(S, u) == {x \in S : x.user = u}

\* a step that is a tool call made for user u
IsCallBy(r, u) == r.tool # "none" /\ r.args.user = u

\* C13: in every get_summary result each row's deficit is the user's stored
\* metabolic rate minus the row's totalCalories, totalStats.totalCalories and
\* totalStats.totalDeficit are the sums over the rows, so totalDeficit is
\* (number of rows x metabolicRate) - totalCalories; only dates with meals
\* have rows.
C13_DeficitAndTotals ==
  (IsSummary /\ response.ok) =>
    LET rows == response.dailyStats
        rate == getMetabolicRate(settings, response.args.user)
    IN /\ \A i \in DOMAIN rows :
            /\ rows[i].deficit = rate - rows[i].totalCalories
            /\ HasMeal(response.args.user, rows[i].date)
       /\ response.totalStats.totalCalories =
            SumOver(DOMAIN rows, [i \in DOMAIN rows |-> rows[i].totalCalories])
       /\ response.totalStats.totalDeficit =
            SumOver(DOMAIN rows, [i \in DOMAIN rows |-> rows[i].deficit])
       /\ response.totalStats.totalDeficit =
            Len(rows) * rate - response.totalStats.totalCalories

\* two rows, a metabolic rate that is not the default, and a surplus
C13_Witness ==
  /\ IsSummary /\ response.ok
  /\ Len(response.dailyStats) = 2
  /\ getMetabolicRate(settings, response.args.user) # 2000
  /\ response.totalStats.totalDeficit < 0

\* C17: get_summary and calculate_metabolic_rate, successful or failed,
\* leave the stored meals, the stored weights and every existing settings
\* row as they were; a stored metabolic rate changes only in an
\* update_user_settings call.
C17_ReadOnlyTools ==
  [][/\ (response'.tool \in {"get_summary", "calculate_metabolic_rate"}) =>
          /\ meals' = meals
          /\ weights' = weights
          /\ \A s \in settings : s \in settings'
     /\ (\E s \in settings, t \in settings' :
            s.user = t.user /\ s.metabolicRate # t.metabolicRate) =>
          response'.tool = "update_user_settings"]_vars

\* a calculation whose result differs from the stored rate has been returned
\* and the stored rate is still the one set by update_user_settings
C17_Witness ==
  /\ IsCalc /\ response.ok
  /\ getMetabolicRate(settings, response.args.user) = 2400
  /\ response.calculatedMetabolicRate # 2400
  /\ response.currentSettingRate = 2400

\* C18: the metabolic rate stored for every user is a positive integer.
C18_RatePositive == \A s \in settings : s.metabolicRate \in Nat \ {0}

\* C20: the result of a read tool call for user A is the result the same
\* call has on A's own meals, weights and settings alone, and a call made
\* for another user leaves A's meals, weights and settings as they were.
ReadsOwnDataOnly(r, M, W, S) ==
  LET u == r.args.user
      ownM == OwnRows(M, u)
      ownW == OwnRows(W, u)
      ownS == OwnSettings(S, u)
  IN /\ r.tool = "get_summary" =>
          r = GetSummaryOn(ownM, ownW, ownS, u, r.args.startDate, r.args.endDate, r.args.days)
     /\ r.tool = "calculate_metabolic_rate" =>
          r = CalculateOn(ownM, ownW, ownS, u, r.args.startDate)
     /\ r.tool = "check_weight" => r = HistoryOn(ownW, u)

C16_ConcurrentFirstCalls ==
  \A p \in Procs :
    (procs[p].pc \in {"done", "failed"} /\ ~procs[p].existing) =>
      /\ procs[p].pc = "done"
      /\ Cardinality(OwnSettings(settings, procs[p].user)) = 1

\* C15: the first tool call for a user without a settings row succeeds and
\* creates a row with metabolicRate 2000 and timezone UTC; ensureUserExists
\* for a user that has a row never changes the stored timezone or metabolic
\* rate, values set by updateUserSettings included.
EnsureReturns(p) == procs[p].pc = "ensure" /\ procs'[p].pc # "ensure"

C15_LazyDefaults ==
  [][\A p \in Procs :
       /\ EnsureReturns(p) =>
            /\ settings' = IF UserExists(settings, procs[p].user) THEN settings
                           ELSE settings \cup {[user |-> procs[p].user, timezone |-> "UTC",
                                                metabolicRate |-> 2000]}
            /\ ~procs[p].existing => procs'[p].pc # "failed"
       /\ (procs[p].pc = "body" /\ procs'[p].pc # "body") =>
            /\ procs'[p].pc = "done"
            /\ settings' = settings]_vars

\* C19: a batch write (createMeals or createWeights) is all-or-nothing: when
\* storing an entry fails, as every entry does for a user without a settings
\* row, the call rejects and no entry of the batch is stored for any user; an
\* empty batch stores nothing and returns an empty list.
IsBatch(r) == r.tool \in {"createMeals", "createWeights"}

OwnersExist ==
  /\ \A m \in Rows(meals) : UserExists(settings, m.user)
  /\ \A w \in Rows(weights) : UserExists(settings, w.user)

\* a write for a user without a settings row is rejected and stores nothing
OrphanWriteRejected ==
  /\ (response'.tool = "createMeal" /\ response' # response
      /\ ~UserExists(settings, response'.args.user)) =>
       (~response'.ok /\ meals' = meals)
  /\ \A p \in Procs :
       (procs[p].pc = "write" /\ procs'[p].pc # "write"
        /\ ~UserExists(settings, procs[p].user)) =>
         (procs'[p].pc = "failed" /\ weights' = weights)

\* C29: referential integrity: every stored meal and weight belongs to a
\* user who has a settings row, and a meal or weight write for a user
\* without one is rejected and stores nothing.
C29_ReferentialIntegrity == []OwnersExist /\ [][OrphanWriteRejected]_vars

\* a meal write and a weight write have been rejected for a user without a
\* settings row, while another user owns a stored meal and a stored weight
C29_Witness ==
  /\ response.tool = "createMeal" /\ ~response.ok
  /\ ~UserExists(settings, response.args.user)
  /\ \E p \in Procs : /\ procs[p].pc = "failed"
                      /\ procs[p].error = "FOREIGN KEY constraint failed"
                      /\ ~UserExists(settings, procs[p].user)
  /\ meals # EmptyBag
  /\ weights # EmptyBag

\* n / d rounded to the nearest integer, ties away from zero (d > 0)
HalfAway(n, d) ==
  IF n >= 0 THEN (2 * n + d) \div (2 * d) ELSE 0 - ((2 * (0 - n) + d) \div (2 * d))

\* the sum and the number of the weights of map wm on the n dates ending
\* at label
MeanOperands(wm, label, n) ==
  LET found == {x \in (label - n + 1)..label : x \in DOMAIN wm}
  IN [sum |-> SumOver(found, [x \in found |-> wm[x]]), count |-> Cardinality(found)]
HalfAwayMean(wm, label, n) ==
  LET o == MeanOperands(wm, label, n)
  IN IF o.count = 0 THEN null ELSE HalfAway(o.sum, o.count)
IsTie(n, d) == (2 * n) % (2 * d) = d

\* the weights calculate_metabolic_rate read for the last response
CalcWeightMap ==
  WeightMap(getWeightsForDateRange(weights, response.args.user,
              addDaysToDateString(response.args.startDate, 0 - CalcMovingAvgDays),
              addDaysToDateString(response.args.startDate, WindowSpan)))
\* the weights get_summary read for the last response
SummaryWeightMap ==
  WeightMap(getWeightsForDateRange(weights, response.args.user,
              format(addDays(startOfDay(ParseDate(response.args.startDate)),
                             0 - response.args.days)),
              format(endOfDay(ParseDate(response.args.endDate)))))
CountedCalories ==
  SumOver(DOMAIN CountedDays, [i \in DOMAIN CountedDays |-> CountedDays[i].totalCalories])

IsAggregation(r) == r.tool \in {"get_summary", "calculate_metabolic_rate"}

\* C26: when a storage read of get_summary or calculate_metabolic_rate fails,
\* the call reports a failure, returns no dailyStats, totals or calculated
\* rate, and has issued the failing read once, with no read after it.
C26_AllOrNothingOnStorageFailure ==
  (IsAggregation(response) /\ response.fault # "none") =>
    /\ ~response.ok
    /\ response.text \in {"Failed to get summary: " \o StorageError,
                          "Failed to calculate metabolic rate: " \o StorageError}
    /\ DOMAIN response \cap {"dailyStats", "totalStats", "calculatedMetabolicRate",
                             "analysisWindow"} = {}
    /\ response.reads = ReadsIssued(response.fault)

\* get_summary has failed on its last read, the weights, after the settings
\* and the meal totals were read, with meals and weights stored in the range
C26_Witness ==
  /\ response.tool = "get_summary"
  /\ response.fault = "getWeightsForDateRange"
  /\ ~response.ok
  /\ HasMeal(SummaryUser, response.args.startDate)
  /\ StoredWeight(SummaryUser, response.args.startDate) # null

\* a step in which a tool call of a session starts or ends
SessionCallStarts == call.pc = "idle" /\ call'.pc = "running" /\ call'.sessionId # NoSession
SessionCallEnds == call.pc = "running" /\ call'.pc = "idle" /\ call.sessionId # NoSession

\* C21: in HTTP mode every tool call of a session operates on the user of
\* the X-User-ID header of the request that created the session, and the
\* user bound to a session ID never changes, whatever X-User-ID later
\* requests carry.
C21_SessionUserBinding ==
  [][/\ \A sid \in DOMAIN sessionServers' :
          /\ sessionServers'[sid] = created'[sid]
          /\ sid \in DOMAIN sessionServers => sessionServers'[sid] = sessionServers[sid]
     /\ \A sid \in DOMAIN created : created'[sid] = created[sid]
     /\ SessionCallStarts => call'.user = created[call'.sessionId]
     /\ SessionCallEnds =>
          /\ response'.tool = "tools/call"
          /\ response'.user = created[call.sessionId]
          /\ response'.ok => UserExists(settings', created[call.sessionId])]_vars

\* a tool call of a session has run for the session's user although the
\* request that carried it named another user in X-User-ID
C21_Witness ==
  /\ response.tool = "tools/call" /\ response.ok
  /\ response.args.sessionId # NoSession
  /\ response.args.header \notin {NoUser, response.user}
  /\ response.user = created[response.args.sessionId]

\* every session whose transport has closed is in neither registry
ClosedSessionsGone ==
  \A sid \in closedSessions : sid \notin DOMAIN transports /\ sid \notin DOMAIN sessionServers

\* a GET or DELETE naming a session whose transport has closed gets 400
InvalidAfterClose ==
  (/\ response' # response
   /\ response'.tool \in {"GET /mcp", "DELETE /mcp"}
   /\ response'.args.sessionId \in closedSessions) =>
    (response'.status = 400 /\ response'.text = "Invalid session ID")

\* C22: when the transport of an initialized HTTP session closes, its
\* session ID is removed from both registries, and every later GET or
\* DELETE carrying that session ID is answered with 400 'Invalid session ID'.
C22_ClosedSessionInvalid == []ClosedSessionsGone /\ [][InvalidAfterClose]_vars

\* a GET has named a session that was initialized and then terminated, while
\* another session is still registered
C22_Witness ==
  /\ response.tool = "GET /mcp"
  /\ response.args.sessionId \in closedSessions
  /\ response.args.sessionId \in DOMAIN created
  /\ response.status = 400
  /\ DOMAIN transports # {}

\* a step that answers a POST /mcp that matches no registered session and
\* carries no X-User-ID header
UnboundPostWithoutUser ==
  /\ response' # response
  /\ response'.tool = "POST /mcp"
  /\ response'.args.header = NoUser
  /\ ~(response'.args.sessionId \in DOMAIN transports
       /\ response'.args.sessionId \in DOMAIN sessionServers)
RejectedUntouched ==
  /\ response'.status = 400
  /\ response'.code = -32602
  /\ instances' = instances
  /\ transports' = transports
  /\ sessionServers' = sessionServers

C27_RegistriesAgree == DOMAIN transports = DOMAIN sessionServers

\* one session is registered, another has been terminated, and the shutdown
\* has begun
C27_Witness ==
  /\ DOMAIN transports # {}
  /\ DOMAIN transports = DOMAIN sessionServers
  /\ closedSessions # {}
  /\ signals > 0

\* the order of the graceful shutdown
ShutdownOrder ==
  /\ exitCode \in {null, 0, 1}
  /\ exitCode # null => (signals > 0 /\ timers > 0)
  /\ \A c \in DOMAIN cleanups :
       /\ cleanups[c].pc # "waiting" => httpServer \in {"none", "closed"}
       /\ cleanups[c].pc = "exit" => (database = "closed" /\ DOMAIN transports = {})
  /\ database = "closed" => (DOMAIN transports = {} /\ DOMAIN sessionServers = {})
  /\ exitCode = 0 =>
       /\ httpServer \in {"none", "closed"}
       /\ DOMAIN transports = {}
       /\ database = "closed"
       /\ \E c \in DOMAIN cleanups : cleanups[c].pc = "exit"

StorageCallFails ==
  (/\ response' # response
   /\ response'.tool = "ensureUserExists"
   /\ database # "open") =>
    /\ ~response'.ok
    /\ response'.text = NotInitialized
    /\ settings' = settings /\ meals' = meals /\ weights' = weights

\* closeDatabase returns normally, and after a close it changes nothing
CloseNeverThrows ==
  (response' # response /\ response'.tool = "closeDatabase") =>
    /\ response'.ok
    /\ database = "closed" => database' = database

\* a tool call that ends after the database was closed returns the failure
InFlightCallFails ==
  (call.pc = "running" /\ call'.pc = "idle" /\ database = "closed") =>
    /\ ~response'.ok
    /\ response'.text = NotInitialized
    /\ settings' = settings

\* no tool call is left unanswered when the shutdown has closed the database
\* and ended the process
NoCallLostAtExit == exitCode = 0 => call.pc = "idle"

\* C30: every storage operation before initialize() or after closeDatabase()
\* fails with 'Database not initialized' and changes nothing;
\* closeDatabase() never throws and is a no-op after a close; a tool call in
\* flight when the shutdown closes the database ends as a failure message to
\* its caller.
C30_DatabaseLifecycle ==
  /\ [][StorageCallFails /\ CloseNeverThrows /\ InFlightCallFails]_vars
  /\ []NoCallLostAtExit

====
